---- MODULE Spec2Model ----
(***************************************************************************)
(* Build-support scripts of glbrush.js:                                    *)
(*   tools/compile_glbrush.py  lib_js, compile_with_online_compiler,       *)
(*                             compile_brushbench                          *)
(*   tools/fetch_compiler.py   sha1_of_file, fetch_compiler                *)
(*   compile/compile.py        lib_scripts_from_config and the command     *)
(* Strings the code inspects (file names, configuration text, request      *)
(* bodies) are sequences of one-character strings.                         *)
(***************************************************************************)
EXTENDS Integers, Sequences, FiniteSets, TLC

VARIABLES
    \* ---- the file system seen by tools/compile_glbrush.py
    rootListing,    \* os.listdir(glbrush_root): sequence of [name, kind]
    libListing,     \* os.listdir(glbrush_root/lib), read only if lib is a directory
    dirState,       \* "no_node_modules" | "no_compiler_dir" | "exists"
    jar,            \* compiler.jar in the compiler folder: "absent" | "present"
    javaOnPath,     \* FALSE: subprocess.call raises OSError
    cwd,            \* the process's current working directory
    \* ---- one call of compile_brushbench / lib_js
    pc,             \* position in compile_brushbench
    restore_dir,    \* local of compile_brushbench
    lib_js_list,    \* local of compile_brushbench (result of lib_js())
    command,        \* local of compile_brushbench
    output_path,    \* argument of compile_brushbench
    status,         \* what subprocess.call returned (discarded by the code)
    result,         \* "none" | "True" | "False" | "raised"
    trace,          \* calls made so far by the current call, in order
    \* ---- tools/fetch_compiler.py
    zipFile,        \* content of 'compiler.zip' in the cwd, or Absent
    target,         \* content of the file at target_path, or Absent
    archiveEntry,   \* content of the 'compiler.jar' entry of the archive at zip_url, or Absent
    target0,        \* what target_path held when the current call started
    fpc,            \* position in fetch_compiler
    fresult,        \* "none" | "True" | "False" | "raised"
    ftrace,         \* file-system and network calls of the current call
    \* ---- compile_with_online_compiler and its caller
    sources,        \* contents of the files of the source set, in resolved order
    compilation_level, \* argument of compile_with_online_compiler
    js_code,        \* argument of compile_with_online_compiler
    requests,       \* requests received by the endpoint: [method, path, body]
    response,       \* body the endpoint answers with
    data,           \* return value of compile_with_online_compiler
    output,         \* content of the output path, or Absent
    opc,            \* position in the remote-service run
    \* ---- compile/compile.py
    configText,     \* content of glbrushscripts.txt
    lines,          \* configfile.readlines()
    idx,            \* loop position in lines
    jsfiles,        \* local of lib_scripts_from_config
    cmd,            \* module-level 'command' of compile.py
    called,         \* argv lists passed to subprocess.call
    cpc             \* position in compile.py

fsVars == <<rootListing, libListing, dirState, jar, javaOnPath, cwd>>
runVars == <<pc, restore_dir, lib_js_list, command, output_path, status, result, trace>>
fetchVars == <<zipFile, target, archiveEntry, target0, fpc, fresult, ftrace>>
onlineVars == <<sources, compilation_level, js_code, requests, response, data, output, opc>>
configVars == <<configText, lines, idx, jsfiles, cmd, called, cpc>>
vars == <<fsVars, runVars, fetchVars, onlineVars, configVars>>

Absent == "<absent>"
\* a path of text content at which no file exists
NoFile == <<Absent>>

(* ------------------------------------------------------------------ *)
(* Generic sequence helpers                                            *)
(* ------------------------------------------------------------------ *)
Range(s) == {s[i] : i \in 1..Len(s)}

\* sequences over S of length at most n
SeqsUpTo(S, n) == UNION {[1..k -> S] : k \in 0..n}

\* sequences over S of length at most n without repetition
InjSeqsUpTo(S, n) ==
    {s \in SeqsUpTo(S, n) : \A i, j \in 1..Len(s) : s[i] = s[j] => i = j}

RECURSIVE Flatten(_)
Flatten(ss) == IF ss = <<>> THEN <<>> ELSE Head(ss) \o Flatten(Tail(ss))

Count(s, e) == Cardinality({i \in 1..Len(s) : s[i] = e})

\* str.endswith(suffix)
EndsWith(s, suffix) ==
    /\ Len(s) >= Len(suffix)
    /\ SubSeq(s, Len(s) - Len(suffix) + 1, Len(s)) = suffix

\* str.startswith(prefix)
StartsWith(s, prefix) ==
    /\ Len(s) >= Len(prefix)
    /\ SubSeq(s, 1, Len(prefix)) = prefix

\* os.path.join(a, b) for a non-empty a that does not end with '/'
PathJoin(a, b) == IF StartsWith(b, <<"/">>) THEN b ELSE a \o <<"/">> \o b

(* ------------------------------------------------------------------ *)
(* tools/compile_glbrush.py: the source-set resolver                   *)
(* ------------------------------------------------------------------ *)
MaxRootEntries == 4
MaxLibEntries == 2
MaxRunEntries == 1

dot_js == <<".", "j", "s">>
util_x_js == <<"u", "t", "i", "l", "_", "x", ".", "j", "s">>
rasterize_shader_y_js == <<"r", "a", "s", "t", "e", "r", "i", "z", "e", "_", "s", "h", "a", "d", "e", "r", "_", "y", ".", "j", "s">>
z_js == <<"z", ".", "j", "s">>
a_js == <<"a", ".", "j", "s">>
a_json == <<"a", ".", "j", "s", "o", "n">>
d_js == <<"d", ".", "j", "s">>
notes_md == <<"n", ".", "m", "d">>
lib == <<"l", "i", "b">>

Entry(name, kind) == [name |-> name, kind |-> kind]

\* directory entries the client root may hold; "dir" entries are subdirectories
RootCandidates ==
    { Entry(util_x_js, "file"), Entry(rasterize_shader_y_js, "file"),
      Entry(z_js, "file"), Entry(notes_md, "file"),
      Entry(d_js, "dir"), Entry(lib, "dir") }

\* directory entries the library root may hold
LibCandidates == { Entry(a_js, "file"), Entry(a_json, "file"), Entry(d_js, "dir") }

\* glbrush_root_path(): the parent of the directory holding the script
glbrush_root_path == <<"/", "g">>

\* the utility marker of the earlier ordering policy
IsUtil(path) ==
    \E i \in 1..Len(path) : i + 3 <= Len(path) /\ SubSeq(path, i, i + 3) = <<"u", "t", "i", "l">>

\* variant: utility-marked paths moved to the front
js_files_in_utilFirst(root, listing) ==
    LET all_files == [i \in 1..Len(listing) |-> PathJoin(root, listing[i].name)]
        IsJs(path) == EndsWith(path, dot_js)
        NotUtil(path) == ~IsUtil(path)
        js_files == SelectSeq(all_files, IsJs)
    IN  SelectSeq(js_files, IsUtil) \o SelectSeq(js_files, NotUtil)

\* js_files_in(root): os.listdir order kept, filtered by path.endswith('.js')
js_files_in(root, listing) ==
    LET all_files == [i \in 1..Len(listing) |-> PathJoin(root, listing[i].name)]
        IsJs(path) == EndsWith(path, dot_js)
    IN  SelectSeq(all_files, IsJs)

\* os.listdir(glbrush_root/lib) succeeds only if lib is a directory of the root
LibExists == \E i \in 1..Len(rootListing) : rootListing[i] = Entry(lib, "dir")

\* lib_js(): library-root files followed by client-root files
lib_js ==
    LET glbrush_root == glbrush_root_path
        js_files == js_files_in(glbrush_root, rootListing)
    IN  js_files_in(PathJoin(glbrush_root, lib), libListing) \o js_files

(* ------------------------------------------------------------------ *)
(* tools/compile_glbrush.py: compile_brushbench                        *)
(* ------------------------------------------------------------------ *)
compiler_path == "/g/node_modules/google-closure-compiler-java"
StartDirs == {"/home", "/g", compiler_path}
ExitStatuses == {0, 1}
Word(w) == <<w>>
brushbench_js_path == <<"/", "g", "/", "b", "e", "n", "c", "h", "m", "a", "r", "k", "/", "b", "r", "u", "s", "h", "b", "e", "n", "c", "h", ".", "j", "s">>
OutputPaths == { <<"/", "g", "/", "b", "e", "n", "c", "h", "m", "a", "r", "k", "/", "b", "r", "u", "s", "h", "b", "e", "n", "c", "h", "_", "g", "l", "b", "r", "u", "s", "h", "_", "m", "i", "n", ".", "j", "s">>, <<"o", "u", "t", ".", "j", "s">> }

RunIdle ==
    /\ pc = "idle" /\ restore_dir = "" /\ lib_js_list = <<>> /\ command = <<>>
    /\ output_path = <<>> /\ status = -1 /\ result = "none" /\ trace = <<>>

FsStates(maxRoot, maxLib) ==
    /\ rootListing \in InjSeqsUpTo(RootCandidates, maxRoot)
    /\ libListing \in IF LibExists THEN InjSeqsUpTo(LibCandidates, maxLib) ELSE {<<>>}

\* lines 46-48: remember the current directory, compute the compiler folder
Call ==
    /\ pc \in {"idle", "done", "raised"}
    /\ \E p \in OutputPaths : output_path' = p
    /\ restore_dir' = cwd
    /\ lib_js_list' = <<>> /\ command' = <<>> /\ status' = -1
    /\ result' = "none" /\ trace' = <<>>
    /\ pc' = "lib_js"
    /\ UNCHANGED <<fsVars, fetchVars, onlineVars, configVars>>

\* line 49: lib_js() returns
LibJsReturns ==
    /\ pc = "lib_js" /\ LibExists
    /\ lib_js_list' = lib_js
    /\ trace' = Append(trace, "lib_js")
    /\ pc' = "mkdir"
    /\ UNCHANGED <<fsVars, fetchVars, onlineVars, configVars>>
    /\ UNCHANGED <<restore_dir, command, output_path, status, result>>

\* line 49: os.listdir of a missing lib directory raises OSError
LibJsRaises ==
    /\ pc = "lib_js" /\ ~LibExists
    /\ trace' = Append(trace, "lib_js")
    /\ result' = "raised" /\ pc' = "raised"
    /\ UNCHANGED <<fsVars, fetchVars, onlineVars, configVars>>
    /\ UNCHANGED <<restore_dir, lib_js_list, command, output_path, status>>

\* line 50: the compiler folder exists
CompilerDirExists ==
    /\ pc = "mkdir" /\ dirState = "exists"
    /\ pc' = "chdir"
    /\ UNCHANGED <<fsVars, fetchVars, onlineVars, configVars>>
    /\ UNCHANGED <<restore_dir, lib_js_list, command, output_path, status, result, trace>>

\* lines 50-51: os.mkdir(compiler_path)
MkDir ==
    /\ pc = "mkdir" /\ dirState = "no_compiler_dir"
    /\ dirState' = "exists"
    /\ trace' = Append(trace, "mkdir")
    /\ pc' = "chdir"
    /\ UNCHANGED <<rootListing, libListing, jar, javaOnPath, cwd>>
    /\ UNCHANGED <<fetchVars, onlineVars, configVars>>
    /\ UNCHANGED <<restore_dir, lib_js_list, command, output_path, status, result>>

\* lines 50-51: os.mkdir raises OSError when node_modules is missing
MkDirRaises ==
    /\ pc = "mkdir" /\ dirState = "no_node_modules"
    /\ trace' = Append(trace, "mkdir")
    /\ result' = "raised" /\ pc' = "raised"
    /\ UNCHANGED <<fsVars, fetchVars, onlineVars, configVars>>
    /\ UNCHANGED <<restore_dir, lib_js_list, command, output_path, status>>

\* line 52: os.chdir(compiler_path)
Chdir ==
    /\ pc = "chdir"
    /\ cwd' = compiler_path
    /\ trace' = Append(trace, "chdir(compiler_path)")
    /\ pc' = "exists"
    /\ UNCHANGED <<rootListing, libListing, dirState, jar, javaOnPath>>
    /\ UNCHANGED <<fetchVars, onlineVars, configVars>>
    /\ UNCHANGED <<restore_dir, lib_js_list, command, output_path, status, result>>

\* variant: a missing compiler.jar is fetched before the outcome is decided
JarMissing_fetches ==
    /\ pc = "exists" /\ jar = "absent"
    /\ \/ /\ trace' = trace \o <<"exists", "fetch_compiler">>
          /\ jar' = "present"
          /\ pc' = "build"
          /\ UNCHANGED <<cwd, result>>
       \/ /\ trace' = trace \o <<"exists", "fetch_compiler", "print", "chdir(restore_dir)">>
          /\ cwd' = restore_dir
          /\ result' = "False" /\ pc' = "done"
          /\ UNCHANGED jar
    /\ UNCHANGED <<rootListing, libListing, dirState, javaOnPath>>
    /\ UNCHANGED <<fetchVars, onlineVars, configVars>>
    /\ UNCHANGED <<restore_dir, lib_js_list, command, output_path, status>>

\* lines 54-57: compiler.jar is missing: diagnostic, restore, return False
JarMissing ==
    /\ pc = "exists" /\ jar = "absent"
    /\ trace' = trace \o <<"exists", "print", "chdir(restore_dir)">>
    /\ cwd' = restore_dir
    /\ result' = "False" /\ pc' = "done"
    /\ UNCHANGED <<rootListing, libListing, dirState, jar, javaOnPath>>
    /\ UNCHANGED <<fetchVars, onlineVars, configVars>>
    /\ UNCHANGED <<restore_dir, lib_js_list, command, output_path, status>>

\* line 54: compiler.jar exists
JarFound ==
    /\ pc = "exists" /\ jar = "present"
    /\ trace' = Append(trace, "exists")
    /\ pc' = "build"
    /\ UNCHANGED <<fsVars, fetchVars, onlineVars, configVars>>
    /\ UNCHANGED <<restore_dir, lib_js_list, command, output_path, status, result>>

\* lines 59-71: the command line
BuildCommand ==
    /\ pc = "build"
    /\ LET brushbench_js_path_no_extension ==
               SubSeq(brushbench_js_path, 1, Len(brushbench_js_path) - 3)
       IN  command' =
               <<Word("java"), Word("-jar"), Word("compiler.jar"),
                 Word("--compilation_level"), Word("SIMPLE_OPTIMIZATIONS"),
                 Word("--js_module_root"), glbrush_root_path,
                 Word("--dependency_mode=STRICT"),
                 Word("--entry_point"), brushbench_js_path_no_extension,
                 Word("--module_resolution"), Word("BROWSER"),
                 Word("--js")>>
               \o lib_js_list
               \o <<brushbench_js_path>>
               \o <<Word("--js_output_file"), output_path>>
    /\ trace' = Append(trace, "print")
    /\ pc' = "call"
    /\ UNCHANGED <<fsVars, fetchVars, onlineVars, configVars>>
    /\ UNCHANGED <<restore_dir, lib_js_list, output_path, status, result>>

\* variant: a non-zero exit status makes the call run the compiler once more
Invoke_retries ==
    /\ pc = "call" /\ javaOnPath
    /\ \E s \in ExitStatuses :
          /\ status' = s
          /\ pc' = IF s # 0 /\ Count(trace, "subprocess.call") = 0
                   THEN "call" ELSE "restore"
    /\ trace' = Append(trace, "subprocess.call")
    /\ UNCHANGED <<fsVars, fetchVars, onlineVars, configVars>>
    /\ UNCHANGED <<restore_dir, lib_js_list, command, output_path, result>>

\* line 72: subprocess.call(command) runs the compiler; its status is dropped
Invoke ==
    /\ pc = "call" /\ javaOnPath
    /\ \E s \in ExitStatuses : status' = s
    /\ trace' = Append(trace, "subprocess.call")
    /\ pc' = "restore"
    /\ UNCHANGED <<fsVars, fetchVars, onlineVars, configVars>>
    /\ UNCHANGED <<restore_dir, lib_js_list, command, output_path, result>>

\* line 72: subprocess.call raises OSError (no 'java' executable)
InvokeRaises ==
    /\ pc = "call" /\ ~javaOnPath
    /\ trace' = Append(trace, "subprocess.call")
    /\ result' = "raised" /\ pc' = "raised"
    /\ UNCHANGED <<fsVars, fetchVars, onlineVars, configVars>>
    /\ UNCHANGED <<restore_dir, lib_js_list, command, output_path, status>>

\* variant: the exit status decides the result
Finish_checksStatus ==
    /\ pc = "restore"
    /\ cwd' = restore_dir
    /\ trace' = Append(trace, "chdir(restore_dir)")
    /\ result' = (IF status = 0 THEN "True" ELSE "False") /\ pc' = "done"
    /\ UNCHANGED <<rootListing, libListing, dirState, jar, javaOnPath>>
    /\ UNCHANGED <<fetchVars, onlineVars, configVars>>
    /\ UNCHANGED <<restore_dir, lib_js_list, command, output_path, status>>

\* lines 74-75: restore the directory, return True
Finish ==
    /\ pc = "restore"
    /\ cwd' = restore_dir
    /\ trace' = Append(trace, "chdir(restore_dir)")
    /\ result' = "True" /\ pc' = "done"
    /\ UNCHANGED <<rootListing, libListing, dirState, jar, javaOnPath>>
    /\ UNCHANGED <<fetchVars, onlineVars, configVars>>
    /\ UNCHANGED <<restore_dir, lib_js_list, command, output_path, status>>

(* ------------------------------------------------------------------ *)
(* tools/fetch_compiler.py                                             *)
(* ------------------------------------------------------------------ *)
zip_sha == "0e354ddd3559d2e6c60fb10a7defa35fd0a365fd"
jar_sha == "a081823a172fd5640c38323ae83fa14a6bb9c589"

\* file contents: the archive published at zip_url, another zip archive, a
\* truncated download, a leftover; the jar of the release, any other jar
ZipContents == {"zip_official", "zip_tampered", "truncated", "stale"}
JarContents == {"jar_official", "jar_other"}

\* hashlib.sha1(content).hexdigest(): distinct contents, distinct digests
SHA1(content) ==
    CASE content = "zip_official" -> zip_sha
      [] content = "jar_official" -> jar_sha
      [] content = "zip_tampered" -> "sha1:zip_tampered"
      [] content = "truncated"    -> "sha1:truncated"
      [] content = "stale"        -> "sha1:stale"
      [] content = "jar_other"    -> "sha1:jar_other"

\* sha1_of_file(filepath): '' for a missing file
sha1_of_file(file) == IF file = Absent THEN "" ELSE SHA1(file)

\* z.namelist() / z.read('compiler.jar') of an archive
ZipEntry(content) ==
    CASE content = "zip_official" -> archiveEntry
      [] content = "zip_tampered" -> "jar_other"
      [] OTHER -> Absent

FetchIdle == fpc = "idle" /\ fresult = "none" /\ ftrace = <<>> /\ target0 = Absent

\* line 16-19: fetch_compiler(target_path) is entered
FetchCall ==
    /\ fpc \in {"idle", "done", "raised"}
    /\ target0' = target
    /\ fresult' = "none" /\ ftrace' = <<>>
    /\ fpc' = "download"
    /\ UNCHANGED <<zipFile, target, archiveEntry>>
    /\ UNCHANGED <<fsVars, runVars, onlineVars, configVars>>

\* lines 20-26: urlretrieve(zip_url, zippath) stores what the server sent
Download ==
    /\ fpc = "download"
    /\ \E c \in {"zip_official", "zip_tampered", "truncated"} : zipFile' = c
    /\ ftrace' = Append(ftrace, "urlretrieve")
    /\ fpc' = "check_zip"
    /\ UNCHANGED <<target, archiveEntry, target0, fresult>>
    /\ UNCHANGED <<fsVars, runVars, onlineVars, configVars>>

\* lines 20-26: urlretrieve raises (no connection: zippath untouched; a
\* transfer cut short: a truncated file)
DownloadRaises ==
    /\ fpc = "download"
    /\ zipFile' \in {zipFile, "truncated"}
    /\ ftrace' = Append(ftrace, "urlretrieve")
    /\ fresult' = "raised" /\ fpc' = "raised"
    /\ UNCHANGED <<target, archiveEntry, target0>>
    /\ UNCHANGED <<fsVars, runVars, onlineVars, configVars>>

\* variant: the mismatching archive is left behind
ZipMismatch_keepsZip ==
    /\ fpc = "check_zip" /\ sha1_of_file(zipFile) # zip_sha
    /\ ftrace' = ftrace \o <<"sha1(zippath)", "print">>
    /\ fresult' = "False" /\ fpc' = "done"
    /\ UNCHANGED <<zipFile, target, archiveEntry, target0>>
    /\ UNCHANGED <<fsVars, runVars, onlineVars, configVars>>

\* lines 27-32: archive checksum mismatch: delete the archive, return False
ZipMismatch ==
    /\ fpc = "check_zip" /\ sha1_of_file(zipFile) # zip_sha
    /\ zipFile' = Absent
    /\ ftrace' = ftrace \o (IF zipFile # Absent
                            THEN <<"sha1(zippath)", "remove(zippath)", "print">>
                            ELSE <<"sha1(zippath)", "print">>)
    /\ fresult' = "False" /\ fpc' = "done"
    /\ UNCHANGED <<target, archiveEntry, target0>>
    /\ UNCHANGED <<fsVars, runVars, onlineVars, configVars>>

\* line 27: archive checksum matches
ZipMatches ==
    /\ fpc = "check_zip" /\ sha1_of_file(zipFile) = zip_sha
    /\ ftrace' = Append(ftrace, "sha1(zippath)")
    /\ fpc' = "extract"
    /\ UNCHANGED <<zipFile, target, archiveEntry, target0, fresult>>
    /\ UNCHANGED <<fsVars, runVars, onlineVars, configVars>>

\* lines 33-36: 'compiler.jar' is in the archive: write it to target_path
ExtractJar ==
    /\ fpc = "extract" /\ ZipEntry(zipFile) # Absent
    /\ target' = ZipEntry(zipFile)
    /\ ftrace' = Append(ftrace, "open(target_path,wb)")
    /\ fpc' = "remove_zip"
    /\ UNCHANGED <<zipFile, archiveEntry, target0, fresult>>
    /\ UNCHANGED <<fsVars, runVars, onlineVars, configVars>>

\* lines 33-34: no 'compiler.jar' in the archive: nothing is written
NoJarEntry ==
    /\ fpc = "extract" /\ ZipEntry(zipFile) = Absent
    /\ fpc' = "remove_zip"
    /\ UNCHANGED <<zipFile, target, archiveEntry, target0, fresult, ftrace>>
    /\ UNCHANGED <<fsVars, runVars, onlineVars, configVars>>

\* line 37: os.remove(zippath)
RemoveZip ==
    /\ fpc = "remove_zip"
    /\ zipFile' = Absent
    /\ ftrace' = Append(ftrace, "remove(zippath)")
    /\ fpc' = "check_jar"
    /\ UNCHANGED <<target, archiveEntry, target0, fresult>>
    /\ UNCHANGED <<fsVars, runVars, onlineVars, configVars>>

\* variant: the mismatching extracted file is left behind
JarMismatch_keepsFile ==
    /\ fpc = "check_jar" /\ sha1_of_file(target) # jar_sha
    /\ ftrace' = ftrace \o <<"sha1(target_path)", "print">>
    /\ fresult' = "False" /\ fpc' = "done"
    /\ UNCHANGED <<zipFile, target, archiveEntry, target0>>
    /\ UNCHANGED <<fsVars, runVars, onlineVars, configVars>>

\* lines 38-43: jar checksum mismatch: delete target_path, return False
JarMismatch ==
    /\ fpc = "check_jar" /\ sha1_of_file(target) # jar_sha
    /\ target' = Absent
    /\ ftrace' = ftrace \o (IF target # Absent
                            THEN <<"sha1(target_path)", "remove(target_path)", "print">>
                            ELSE <<"sha1(target_path)", "print">>)
    /\ fresult' = "False" /\ fpc' = "done"
    /\ UNCHANGED <<zipFile, archiveEntry, target0>>
    /\ UNCHANGED <<fsVars, runVars, onlineVars, configVars>>

\* lines 38, 44: jar checksum matches: return True
JarMatches ==
    /\ fpc = "check_jar" /\ sha1_of_file(target) = jar_sha
    /\ ftrace' = Append(ftrace, "sha1(target_path)")
    /\ fresult' = "True" /\ fpc' = "done"
    /\ UNCHANGED <<zipFile, target, archiveEntry, target0>>
    /\ UNCHANGED <<fsVars, runVars, onlineVars, configVars>>

(* ------------------------------------------------------------------ *)
(* tools/compile_glbrush.py: compile_with_online_compiler              *)
(* ------------------------------------------------------------------ *)
MaxFiles == 2
MaxFileLen == 1

\* characters of source text: a letter, and the ones form encoding treats
SourceChars == {"a", " ", "+", "&"}
CompilationLevels == { <<"S", "I", "M", "P", "L", "E", "_", "O", "P", "T", "I", "M", "I", "Z", "A", "T", "I", "O", "N", "S">>, <<"W", "H", "I", "T", "E", "S", "P", "A", "C", "E", "_", "O", "N", "L", "Y">> }
Responses == { <<"v", "a", "r", " ", "a", ";">>, <<"E", "r", "r", "o", "r", "(", "2", "2", ")">> }

\* variant: '&' is not escaped
quote_plus_char_keepsAmp(c) ==
    CASE c = " " -> <<"+">>
      [] c = "+" -> <<"%", "2", "B">>
      [] c = "=" -> <<"%", "3", "D">>
      [] c = "%" -> <<"%", "2", "5">>
      [] OTHER   -> <<c>>

\* urllib.quote_plus of one character
quote_plus_char(c) ==
    CASE c = " " -> <<"+">>
      [] c = "+" -> <<"%", "2", "B">>
      [] c = "&" -> <<"%", "2", "6">>
      [] c = "=" -> <<"%", "3", "D">>
      [] c = "%" -> <<"%", "2", "5">>
      [] OTHER   -> <<c>>

\* urllib.quote_plus(s)
quote_plus(str) == Flatten([i \in 1..Len(str) |-> quote_plus_char(str[i])])

RECURSIVE JoinAmp(_)
JoinAmp(parts) ==
    IF parts = <<>> THEN <<>>
    ELSE IF Len(parts) = 1 THEN parts[1]
    ELSE parts[1] \o <<"&">> \o JoinAmp(Tail(parts))

\* urllib.urlencode(list of pairs): '&'.join(quote_plus(k) + '=' + quote_plus(v))
urlencode(query) ==
    JoinAmp([i \in 1..Len(query) |->
                quote_plus(query[i][1]) \o <<"=">> \o quote_plus(query[i][2])])

\* the endpoint's side: application/x-www-form-urlencoded decoding
Unhex(h) ==
    CASE h = <<"2", "B">> -> "+"
      [] h = <<"2", "6">> -> "&"
      [] h = <<"3", "D">> -> "="
      [] h = <<"2", "5">> -> "%"
      [] h = <<"2", "0">> -> " "
      [] OTHER -> "?"

RECURSIVE Unquote(_)
Unquote(str) ==
    IF str = <<>> THEN <<>>
    ELSE IF Head(str) = "+" THEN <<" ">> \o Unquote(Tail(str))
    ELSE IF Head(str) = "%" /\ Len(str) >= 3
         THEN <<Unhex(SubSeq(str, 2, 3))>> \o Unquote(SubSeq(str, 4, Len(str)))
    ELSE <<Head(str)>> \o Unquote(Tail(str))

RECURSIVE Split(_, _)
Split(str, sep) ==
    IF \E i \in 1..Len(str) : str[i] = sep
    THEN LET i == CHOOSE k \in 1..Len(str) :
                     str[k] = sep /\ \A j \in 1..(k - 1) : str[j] # sep
         IN  <<SubSeq(str, 1, i - 1)>> \o Split(SubSeq(str, i + 1, Len(str)), sep)
    ELSE <<str>>

\* the value the endpoint reads for a form field (Absent if the field is missing)
FormField(body, key) ==
    LET pairs == Split(body, "&")
        IsKey(i) ==
            \E k \in 1..Len(pairs[i]) :
                /\ pairs[i][k] = "="
                /\ \A j \in 1..(k - 1) : pairs[i][j] # "="
                /\ Unquote(SubSeq(pairs[i], 1, k - 1)) = key
        hits == {i \in 1..Len(pairs) : IsKey(i)}
    IN  IF hits = {} THEN NoFile
        ELSE LET i == CHOOSE h \in hits : \A g \in hits : h <= g
                 k == CHOOSE k \in 1..Len(pairs[i]) :
                          pairs[i][k] = "=" /\ \A j \in 1..(k - 1) : pairs[i][j] # "="
             IN  Unquote(SubSeq(pairs[i], k + 1, Len(pairs[i])))

K_js_code == <<"j", "s", "_", "c", "o", "d", "e">>
K_compilation_level == <<"c", "o", "m", "p", "i", "l", "a", "t", "i", "o", "n", "_", "l", "e", "v", "e", "l">>
K_output_format == <<"o", "u", "t", "p", "u", "t", "_", "f", "o", "r", "m", "a", "t">>
K_output_info == <<"o", "u", "t", "p", "u", "t", "_", "i", "n", "f", "o">>

\* lines 27-32: the request parameters
params(code, level) ==
    urlencode(<< <<K_js_code, code>>,
                 <<K_compilation_level, level>>,
                 <<K_output_format, <<"t", "e", "x", "t">>>>,
                 <<K_output_info, <<"c", "o", "m", "p", "i", "l", "e", "d", "_", "c", "o", "d", "e">>>> >>)

OnlineIdle ==
    /\ opc = "idle" /\ js_code = <<>> /\ compilation_level = <<>>
    /\ requests = <<>> /\ response = <<>> /\ data = <<>>

\* the caller: every file of the source set read into one buffer, in order
ReadSources ==
    /\ opc \in {"idle", "done", "raised"}
    /\ js_code' = Flatten(sources)
    /\ \E level \in CompilationLevels : compilation_level' = level
    /\ requests' = <<>> /\ response' = <<>> /\ data' = <<>>
    /\ opc' = "post"
    /\ UNCHANGED <<sources, output>>
    /\ UNCHANGED <<fsVars, runVars, fetchVars, configVars>>

\* lines 21-41: one POST to /compile; the answer is read in full and returned
Post ==
    /\ opc = "post"
    /\ requests' = Append(requests,
           [method |-> "POST", path |-> "/compile",
            body |-> params(js_code, compilation_level)])
    /\ \E r \in Responses : response' = r /\ data' = r
    /\ opc' = "returned"
    /\ UNCHANGED <<sources, compilation_level, js_code, output>>
    /\ UNCHANGED <<fsVars, runVars, fetchVars, configVars>>

\* lines 36-39: the connection fails: httplib raises, nothing is returned
PostRaises ==
    /\ opc = "post"
    /\ requests' \in
           { requests,
             Append(requests, [method |-> "POST", path |-> "/compile",
                               body |-> params(js_code, compilation_level)]) }
    /\ opc' = "raised"
    /\ UNCHANGED <<sources, compilation_level, js_code, response, data, output>>
    /\ UNCHANGED <<fsVars, runVars, fetchVars, configVars>>

\* the caller: the returned body is written to the output path as it is
WriteOutput ==
    /\ opc = "returned"
    /\ output' = data
    /\ opc' = "done"
    /\ UNCHANGED <<sources, compilation_level, js_code, requests, response, data>>
    /\ UNCHANGED <<fsVars, runVars, fetchVars, configVars>>

(* ------------------------------------------------------------------ *)
(* compile/compile.py                                                  *)
(* ------------------------------------------------------------------ *)
MaxConfigLen == 5

ConfigChars == {"#", " ", "a", "\n"}
Whitespace == {" ", "\n"}

\* file.readlines(): the lines, each with its terminator
RECURSIVE readlines(_)
readlines(text) ==
    IF text = <<>> THEN <<>>
    ELSE IF \E i \in 1..Len(text) : text[i] = "\n"
         THEN LET i == CHOOSE k \in 1..Len(text) :
                          text[k] = "\n" /\ \A j \in 1..(k - 1) : text[j] # "\n"
              IN  <<SubSeq(text, 1, i)>> \o readlines(SubSeq(text, i + 1, Len(text)))
    ELSE <<text>>

RECURSIVE lstrip(_)
lstrip(str) ==
    IF str # <<>> /\ Head(str) \in Whitespace THEN lstrip(Tail(str)) ELSE str

RECURSIVE rstrip(_)
rstrip(str) ==
    IF str # <<>> /\ str[Len(str)] \in Whitespace
    THEN rstrip(SubSeq(str, 1, Len(str) - 1)) ELSE str

\* str.strip()
strip(str) == rstrip(lstrip(str))

\* variant: the comment test is made on the stripped line
KeepsLine_stripsFirst(line) == ~StartsWith(strip(line), <<"#">>) /\ strip(line) # <<>>

\* line 8: the test that keeps a line
KeepsLine(line) == ~StartsWith(line, <<"#">>) /\ strip(line) # <<>>

ConfigIdle ==
    /\ cpc = "start" /\ lines = <<>> /\ idx = 0 /\ jsfiles = <<>>
    /\ cmd = <<>> /\ called = <<>>

\* lines 14-15, 5-7: the command prefix; the file is opened and read
OpenConfig ==
    /\ cpc = "start"
    /\ cmd' = <<Word("java"), Word("-jar"), Word("compiler.jar"),
                Word("--compilation_level"), Word("WHITESPACE_ONLY"), Word("--js")>>
    /\ jsfiles' = <<>>
    /\ lines' = readlines(configText)
    /\ idx' = 1
    /\ cpc' = "loop"
    /\ UNCHANGED <<configText, called>>
    /\ UNCHANGED <<fsVars, runVars, fetchVars, onlineVars>>

\* lines 7-9: a kept line is stripped and joined to '..'
AppendLine ==
    /\ cpc = "loop" /\ idx <= Len(lines) /\ KeepsLine(lines[idx])
    /\ jsfiles' = Append(jsfiles, PathJoin(<<".", ".">>, strip(lines[idx])))
    /\ idx' = idx + 1
    /\ UNCHANGED <<configText, lines, cmd, called, cpc>>
    /\ UNCHANGED <<fsVars, runVars, fetchVars, onlineVars>>

\* lines 7-8: a comment or blank line adds nothing
SkipLine ==
    /\ cpc = "loop" /\ idx <= Len(lines) /\ ~KeepsLine(lines[idx])
    /\ idx' = idx + 1
    /\ UNCHANGED <<configText, lines, jsfiles, cmd, called, cpc>>
    /\ UNCHANGED <<fsVars, runVars, fetchVars, onlineVars>>

\* lines 10-11, 15-16: the list is returned and the command completed
CompleteCommand ==
    /\ cpc = "loop" /\ idx > Len(lines)
    /\ cmd' = cmd \o jsfiles \o <<Word("--js_output_file"), Word("glbrush_min.js")>>
    /\ cpc' = "call"
    /\ UNCHANGED <<configText, lines, idx, jsfiles, called>>
    /\ UNCHANGED <<fsVars, runVars, fetchVars, onlineVars>>

\* lines 17-18: print and subprocess.call(command)
CallCompiler ==
    /\ cpc = "call"
    /\ called' = Append(called, cmd)
    /\ cpc' = "done"
    /\ UNCHANGED <<configText, lines, idx, jsfiles, cmd>>
    /\ UNCHANGED <<fsVars, runVars, fetchVars, onlineVars>>

(* ------------------------------------------------------------------ *)
(* Initial states and specifications                                   *)
(* ------------------------------------------------------------------ *)
FsFixed ==
    /\ rootListing = <<>> /\ libListing = <<>> /\ dirState = "exists"
    /\ jar = "present" /\ javaOnPath = TRUE /\ cwd = "/home"

FetchFixed == zipFile = Absent /\ target = Absent /\ archiveEntry = Absent /\ FetchIdle

OnlineFixed == sources = <<>> /\ output = NoFile /\ OnlineIdle

ConfigFixed == configText = <<>> /\ ConfigIdle

\* compile_brushbench on every state of the installation
InitCompile ==
    /\ FsStates(MaxRunEntries, MaxRunEntries)
    /\ dirState \in {"no_node_modules", "no_compiler_dir", "exists"}
    /\ jar \in IF dirState = "exists" THEN {"absent", "present"} ELSE {"absent"}
    /\ javaOnPath \in BOOLEAN
    /\ cwd \in IF dirState = "exists" THEN StartDirs ELSE StartDirs \ {compiler_path}
    /\ RunIdle /\ FetchFixed /\ OnlineFixed /\ ConfigFixed

NextCompile ==
    \/ Call \/ LibJsReturns \/ LibJsRaises
    \/ CompilerDirExists \/ MkDir \/ MkDirRaises \/ Chdir
    \/ JarMissing \/ JarFound \/ BuildCommand
    \/ Invoke \/ InvokeRaises \/ Finish

SpecCompile == InitCompile /\ [][NextCompile]_vars

\* compile_brushbench on a complete installation, over every content and
\* listing order of the two roots
InitResolve ==
    /\ FsStates(MaxRootEntries, MaxLibEntries)
    /\ dirState = "exists" /\ jar = "present" /\ javaOnPath = TRUE /\ cwd = "/home"
    /\ RunIdle /\ FetchFixed /\ OnlineFixed /\ ConfigFixed

NextResolve ==
    \/ Call \/ LibJsReturns \/ LibJsRaises
    \/ CompilerDirExists \/ Chdir \/ JarFound \/ BuildCommand
    \/ Invoke \/ Finish

SpecResolve == InitResolve /\ [][NextResolve]_vars

\* fetch_compiler on every state of the two files and every archive
InitFetch ==
    /\ zipFile \in {Absent, "stale"}
    /\ target \in {Absent} \cup JarContents
    /\ archiveEntry \in {Absent} \cup JarContents
    /\ FetchIdle
    /\ FsFixed /\ RunIdle /\ OnlineFixed /\ ConfigFixed

NextFetch ==
    \/ FetchCall \/ Download \/ DownloadRaises
    \/ ZipMismatch \/ ZipMatches \/ ExtractJar \/ NoJarEntry
    \/ RemoveZip \/ JarMismatch \/ JarMatches

SpecFetch == InitFetch /\ [][NextFetch]_vars

\* the remote-service run on every source set
InitOnline ==
    /\ sources \in SeqsUpTo(SeqsUpTo(SourceChars, MaxFileLen), MaxFiles)
    /\ output = NoFile
    /\ OnlineIdle
    /\ FsFixed /\ RunIdle /\ FetchFixed /\ ConfigFixed

NextOnline == ReadSources \/ Post \/ PostRaises \/ WriteOutput

SpecOnline == InitOnline /\ [][NextOnline]_vars

\* compile/compile.py on every configuration file
InitConfig ==
    /\ configText \in SeqsUpTo(ConfigChars, MaxConfigLen)
    /\ ConfigIdle
    /\ FsFixed /\ RunIdle /\ FetchFixed /\ OnlineFixed

NextConfig == OpenConfig \/ AppendLine \/ SkipLine \/ CompleteCommand \/ CallCompiler

SpecConfig == InitConfig /\ [][NextConfig]_vars

(* ------------------------------------------------------------------ *)
(* Properties                                                          *)
(* ------------------------------------------------------------------ *)
Did(e) == e \in Range(trace)
FDid(e) == e \in Range(ftrace)
Returned == pc = "done"
Exited == pc \in {"done", "raised"}

\* first position of e in s (0 if absent)
Pos(s, e) ==
    IF \E i \in 1..Len(s) : s[i] = e
    THEN CHOOSE i \in 1..Len(s) : s[i] = e /\ \A j \in 1..(i - 1) : s[j] # e
    ELSE 0

\* C1: on every exit reached after the directory was changed to the compiler
\* folder (return True, return False, an error raised by subprocess.call) the
\* current working directory equals the one current when the call started.
C1_CwdRestoredOnEveryExit ==
    (Exited /\ Did("chdir(compiler_path)")) => cwd = restore_dir

\* C2 as stated: after fetch_compiler returns, a file exists at target_path only
\* if its SHA-1 is jar_sha, and after a return of False no file exists there,
\* whatever target_path held before the call.
C2_NeverLeavesUnverifiedFile ==
    fpc = "done" =>
        /\ target # Absent => sha1_of_file(target) = jar_sha
        /\ fresult = "False" => target = Absent

\* C2 amended: once the archive's SHA-1 matched, a file exists at target_path
\* after the return only if its SHA-1 is jar_sha, and none exists after a return
\* of False; when the archive's SHA-1 mismatched, fetch_compiler returns False
\* and target_path holds exactly what it held before the call.
C2_VerifiedOrUntouched ==
    fpc = "done" =>
        /\ FDid("sha1(target_path)") =>
              /\ target # Absent => sha1_of_file(target) = jar_sha
              /\ fresult = "False" => target = Absent
              /\ fresult = "True" => sha1_of_file(target) = jar_sha
        /\ ~FDid("sha1(target_path)") =>
              /\ fresult = "False"
              /\ target = target0

\* a wrong extracted file was written and deleted again
C2_Witness ==
    /\ fpc = "done" /\ fresult = "False"
    /\ FDid("open(target_path,wb)") /\ FDid("remove(target_path)")
    /\ target = Absent

ClientPath(i) == PathJoin(glbrush_root_path, rootListing[i].name)
LibPath(i) == PathJoin(PathJoin(glbrush_root_path, lib), libListing[i].name)
ClientJs == {i \in 1..Len(rootListing) : EndsWith(rootListing[i].name, dot_js)}
LibJsIdx == {i \in 1..Len(libListing) : EndsWith(libListing[i].name, dot_js)}
ClientJsFiles == {i \in ClientJs : rootListing[i].kind = "file"}
Resolved == Did("lib_js") /\ pc # "raised"

C5_ExactlyTheJsFiles ==
    Resolved =>
        LET clientFiles == {ClientPath(i) : i \in
                               {k \in ClientJs : rootListing[k].kind = "file"}}
            libFiles == {LibPath(i) : i \in
                               {k \in LibJsIdx : libListing[k].kind = "file"}}
        IN  /\ Range(lib_js_list) = clientFiles \cup libFiles
            /\ \A p \in Range(lib_js_list) : Count(lib_js_list, p) = 1
            /\ \A p \in libFiles, q \in clientFiles :
                  Pos(lib_js_list, p) < Pos(lib_js_list, q)

\* C6: the external compiler is started at most once per call, only after
\* lib_js returned and only with compiler.jar in the compiler folder; a call
\* that returns False never started it; no step of a call is made twice, the
\* call only moves forward through its stages, and after it ended nothing
\* happens but a new call from the start.
Stage(p) ==
    CASE p = "idle" -> 0
      [] p = "lib_js" -> 1
      [] p \in {"mkdir", "chdir", "exists"} -> 2
      [] p \in {"build", "call"} -> 3
      [] p = "restore" -> 4
      [] p \in {"done", "raised"} -> 5

\* the line of compile_glbrush.py a position stands before
Line(p) ==
    CASE p = "idle" -> 43
      [] p = "lib_js" -> 49
      [] p = "mkdir" -> 50
      [] p = "chdir" -> 52
      [] p = "exists" -> 54
      [] p = "build" -> 59
      [] p = "call" -> 72
      [] p = "restore" -> 74
      [] p \in {"done", "raised"} -> 76

C6_RunInvariant ==
    /\ Count(trace, "subprocess.call") <= 1
    /\ \A e \in Range(trace) : Count(trace, e) = 1
    /\ Did("subprocess.call") =>
          /\ 0 < Pos(trace, "lib_js")
          /\ Pos(trace, "lib_js") < Pos(trace, "subprocess.call")
          /\ Pos(trace, "chdir(compiler_path)") < Pos(trace, "subprocess.call")
          /\ lib_js_list = lib_js
          /\ jar = "present" /\ dirState = "exists"
    /\ result = "False" => ~Did("subprocess.call")
    /\ result \in {"True", "False"} => pc = "done"

C6_RunStep ==
    /\ pc' # pc =>
          \/ Line(pc') > Line(pc) /\ Stage(pc') >= Stage(pc)
          \/ pc \in {"done", "raised"} /\ pc' = "lib_js" /\ trace' = <<>>
    /\ (pc \in {"done", "raised"} /\ pc' = pc) => UNCHANGED <<trace, result, cwd>>

\* C6: every state of a call satisfies C6_RunInvariant (the external compiler
\* started at most once, after resolution, with compiler.jar present, never in
\* a call that returns False) and every step satisfies C6_RunStep (forward
\* only, nothing after the end but a new call).
C6_StartedOnceAfterResolution == [](C6_RunInvariant) /\ [][C6_RunStep]_vars

\* a completed call that ran the external compiler
C6_Witness ==
    Returned /\ result = "True" /\ Did("subprocess.call") /\ Did("lib_js")

\* C7: a call downloads the archive at most once; whenever it returns,
\* compiler.zip does not exist; on an archive mismatch the archive is deleted
\* and False returned without target_path being opened for writing; on a match
\* the archive is deleted after the extraction and before the extracted file's
\* SHA-1 is taken.
C7_TempArchiveRemoved ==
    /\ Count(ftrace, "urlretrieve") <= 1
    /\ fresult \in {"True", "False"} => zipFile = Absent
    /\ (fpc = "done" /\ ~FDid("sha1(target_path)")) =>
          /\ fresult = "False"
          /\ FDid("remove(zippath)")
          /\ ~FDid("open(target_path,wb)")
          /\ target = target0
    /\ FDid("sha1(target_path)") =>
          /\ 0 < Pos(ftrace, "remove(zippath)")
          /\ Pos(ftrace, "remove(zippath)") < Pos(ftrace, "sha1(target_path)")
          /\ Pos(ftrace, "open(target_path,wb)") < Pos(ftrace, "remove(zippath)")
          /\ Count(ftrace, "remove(zippath)") = 1

\* a mismatching archive was downloaded and deleted
C7_Witness ==
    /\ fpc = "done" /\ fresult = "False"
    /\ FDid("urlretrieve") /\ FDid("remove(zippath)") /\ ~FDid("sha1(target_path)")
    /\ zipFile = Absent

\* C8: one invocation issues exactly one POST request whose js_code field is
\* the concatenation of the contents of the files of the source set in
\* resolved order, and the response body becomes the content of the output
\* path unchanged, whatever the service answered.
C8_OnePostOfConcatenation ==
    /\ Len(requests) <= 1
    /\ opc \in {"returned", "done"} =>
          /\ Len(requests) = 1
          /\ requests[1].method = "POST" /\ requests[1].path = "/compile"
          /\ FormField(requests[1].body, K_js_code) = Flatten(sources)
          /\ FormField(requests[1].body, K_compilation_level) = compilation_level
          /\ data = response
    /\ opc = "done" => output = response

\* a two-file source set whose text needs escaping was posted and the answer,
\* an error page, written out
C8_Witness ==
    /\ opc = "done" /\ Len(sources) = 2
    /\ sources[1] = <<"a">> /\ sources[2] = <<"&">>
    /\ Len(requests) = 1
    /\ output = <<"E", "r", "r", "o", "r", "(", "2", "2", ")">>

\* C9: lib_scripts_from_config returns, in file order, one entry per line that
\* is neither blank nor beginning with '#', each the stripped line joined under
\* '..', and the command holds exactly this list between '--js' and
\* '--js_output_file'.
IsBlank(line) == \A i \in 1..Len(line) : line[i] \in Whitespace
BeginsWithHash(line) == Len(line) > 0 /\ line[1] = "#"
Trimmed(line) ==
    LET ink == {i \in 1..Len(line) : line[i] \notin Whitespace}
        lo == CHOOSE i \in ink : \A j \in ink : i <= j
        hi == CHOOSE i \in ink : \A j \in ink : j <= i
    IN  SubSeq(line, lo, hi)
ExpectedEntries ==
    LET ls == readlines(configText)
        kept == {i \in 1..Len(ls) : ~IsBlank(ls[i]) /\ ~BeginsWithHash(ls[i])}
        Rank(i) == Cardinality({k \in kept : k <= i})
    IN  [n \in 1..Cardinality(kept) |->
            LET i == CHOOSE k \in kept : Rank(k) = n
            IN  <<".", ".", "/">> \o Trimmed(ls[i])]

C9_ConfigEntries ==
    /\ cpc \in {"call", "done"} =>
          /\ jsfiles = ExpectedEntries
          /\ LET i == Pos(cmd, Word("--js"))
                 j == Pos(cmd, Word("--js_output_file"))
             IN  /\ 0 < i /\ i < j
                 /\ SubSeq(cmd, i + 1, j - 1) = ExpectedEntries
    /\ cpc = "done" => called = <<cmd>>

\* a file with a comment line, a blank line and a path line was processed
C9_Witness ==
    /\ cpc = "done"
    /\ configText = <<"#", "\n", "\n", "a">>
    /\ jsfiles = << <<".", ".", "/", "a">> >>

\* C10: the result depends only on the presence of compiler.jar: False exactly
\* when compiler.jar is absent (the diagnostic printed first), True whenever the
\* external process was invoked and returned, with a zero and with a non-zero
\* exit status alike.
C10_ResultIgnoresExitStatus ==
    /\ Returned =>
          /\ result = "False" <=> jar = "absent"
          /\ result = "True" <=> jar = "present"
          /\ result = "False" =>
                 0 < Pos(trace, "print") /\ trace[Len(trace) - 1] = "print"
          /\ result = "True" => status \in ExitStatuses
    /\ pc = "restore" => status \in ExitStatuses
    /\ (Did("subprocess.call") /\ status \in ExitStatuses) =>
          pc = "restore" \/ result = "True"

\* the external process ended with a non-zero status and the call returned True
C10_Witness ==
    Returned /\ status = 1 /\ result = "True"

====
